---- MODULE Spec2Model ----
(***************************************************************************)
(* Model of backend/app/h2_simulate.py: connect_tls_h2, safe_send and the  *)
(* run_test session loop with its WINDOW_UPDATE delay state machine.       *)
(*                                                                         *)
(* Time is counted in ticks of 0.1 s, so the 0.1 s margin of the loop      *)
(* timeout is one tick and the 1.0 s ping poll cap is ten ticks.  Only     *)
(* connect, the TLS handshake and recv take time; every other statement    *)
(* is instantaneous.                                                       *)
(***************************************************************************)
EXTENDS Integers, Sequences, FiniteSets, TLC

\* ---------------------------------------------------------------- bounds
MaxTime == 5         \* ticks a run is followed for, from its start timestamp
MaxChunks == 2       \* DataReceived events per session
MaxProcs == 4        \* child processes the orchestrator launches
MaxWall == 3         \* wall-clock ticks the orchestrator is followed for
MaxBatch == 2        \* events returned by one conn.receive_data call

\* ------------------------------------------------------ program constants
PingPollCap == 10    \* min(loop_timeout, 1.0)
DelayMargin == 1     \* time_left + 0.1

Min(a, b) == IF a <= b THEN a ELSE b

\* ------------------------------------------------------------- the inputs
\* run_test's parameters that the session logic reads (ticks and bytes).
MkCfg(d, s, p, c, r, m) ==
    [delay_seconds |-> d, start_after_bytes |-> s, ping_interval |-> p,
     connect_timeout |-> c, read_timeout |-> r, max_runtime |-> m]

Configs ==
    { MkCfg(0, 0, 0, 1, 2, 0),
      MkCfg(0, 2, 2, 1, 2, 4),
      MkCfg(2, 0, 0, 1, 2, 0),
      MkCfg(2, 2, 0, 1, 3, 0),
      MkCfg(2, 2, 2, 1, 2, 0),
      MkCfg(2, 2, 0, 5, 2, 2),
      MkCfg(0, 0, 1, 1, 3, 0) }

\* time.monotonic() has an unspecified origin.
ClockOrigins == {0, 2}

\* What ALPN can select when the client offers only "h2".
AlpnResults == {"h2", "http/1.1", "None"}

\* SettingsAcknowledged, ResponseReceived and PingAckReceived are handled the
\* same way (one log line); ResponseReceived stands for the three.
LogOnlyKinds == {"ResponseReceived"}
TerminalKinds == {"StreamReset", "ConnectionTerminated", "StreamEnded"}

\* <<len(event.data), event.flow_controlled_length>> of a chunk: the
\* flow-controlled length is the payload length plus padding.
Chunks == {<<0, 0>>, <<1, 1>>, <<1, 2>>, <<2, 2>>}

DataEvents ==
    { [kind |-> "DataReceived", len |-> c[1], fcl |-> c[2]] : c \in Chunks }

\* conn.receive_data returns a list of 0..MaxBatch events.  run_test reads the
\* list strictly in order, so the model draws each event when it is dispatched
\* and keeps only the number of events still to come.
BatchSizes == 0..MaxBatch

Intent(k, n) == [kind |-> k, n |-> n]

VARIABLES
    cfg,               \* the run's parameters
    pc,                \* position of run_test
    clock,             \* time.monotonic()
    now,               \* run_test's local `now`
    start_t,
    last_ping_sent,
    delay_active,
    delay_until,
    total_received,
    pending_ack_bytes,
    loop_timeout,
    events_left,       \* events of the current batch not yet dispatched
    sock,              \* run_test's local `sock`: "None" or "set"
    transport,         \* the OS socket: "none", "open", "closed"
    closes,            \* close() calls that reached the transport
    negotiated,        \* selected_alpn_protocol(), "unset" before TLS
    status,            \* run_test's return value, -1 while running
    cause,             \* the return statement or except clause taken
    outbuf,            \* the engine's output not yet drained
    written,           \* which of the preface and the request headers were given to sendall
    send_failed,       \* a sock.sendall inside safe_send raised (and was swallowed)
    recv_called,       \* the loop's sock.recv was called
    n_chunks,          \* DataReceived events handled
    n_delay_started,   \* 'delay_started' log lines
    n_delay_complete,  \* 'delay_complete' log lines
    n_ping_sent,       \* 'ping_sent' log lines
    n_data_log,        \* DATA log lines
    armed_fcl,         \* flow-controlled bytes received while armed, since the last arming
    flush_acked,       \* bytes given to acknowledge_received_data by the last flush
    last_rx,           \* clock at the last bytes received (or loop entry)
    loop_start,        \* clock when the streaming loop was entered
    \* backend/app/main.py: the orchestrator's ExperimentState and its children
    running,
    run_id,
    start_time,
    h2_proc,           \* 0 for None, else the child's number
    tcpdump_proc,      \* 0 for None, else the child's number
    wall,              \* time.time()
    alive,             \* the children launched by Popen that are still running
    n_popen,           \* successful subprocess.Popen calls so far
    response           \* the last HTTP response of the API

orchVars == <<running, run_id, start_time, h2_proc, tcpdump_proc, wall, alive,
              n_popen, response>>

runVars == <<cfg, pc, clock, now, start_t, last_ping_sent, delay_active,
          delay_until, total_received, pending_ack_bytes, loop_timeout,
          events_left, sock, transport, closes, negotiated, status, cause,
          outbuf, written, recv_called, n_chunks, n_delay_started,
          n_delay_complete, n_ping_sent, n_data_log, armed_fcl, last_rx,
          loop_start, send_failed, flush_acked>>

vars == <<runVars, orchVars>>

sessionVars == <<last_ping_sent, delay_active, delay_until, total_received,
                 pending_ack_bytes, n_chunks, n_delay_started,
                 n_delay_complete, n_ping_sent, n_data_log, armed_fcl,
                 flush_acked>>
engineVars == <<outbuf, written, send_failed>>
batchVars == <<events_left>>
connVars == <<negotiated, recv_called, loop_start>>

\* main.py: the module-level ExperimentState() and no child process.
InitOrch ==
    /\ running = FALSE
    /\ run_id = 0
    /\ start_time = 0
    /\ h2_proc = 0
    /\ tcpdump_proc = 0
    /\ wall = 0
    /\ alive = {}
    /\ n_popen = 0
    /\ response = "none"

\* h2_simulate.py: run_test's locals at its first statement.
InitRun ==
    /\ cfg \in Configs
    /\ pc = "connect"
    /\ clock \in ClockOrigins
    /\ now = 0
    /\ start_t = clock
    /\ last_ping_sent = 0
    /\ delay_active = FALSE
    /\ delay_until = 0
    /\ total_received = 0
    /\ pending_ack_bytes = 0
    /\ loop_timeout = 0
    /\ events_left = 0
    /\ sock = "None"
    /\ transport = "none"
    /\ closes = 0
    /\ negotiated = "unset"
    /\ status = -1
    /\ cause = "running"
    /\ outbuf = <<>>
    /\ written = {}
    /\ recv_called = FALSE
    /\ n_chunks = 0
    /\ n_delay_started = 0
    /\ n_delay_complete = 0
    /\ n_ping_sent = 0
    /\ n_data_log = 0
    /\ armed_fcl = 0
    /\ last_rx = 0
    /\ loop_start = 0
    /\ send_failed = FALSE
    /\ flush_acked = 0

Init == InitRun /\ InitOrch

\* -------------------------------------------------- return / except / finally
\* The exit status of each except clause of run_test.
ExceptStatus(exc) ==
    CASE exc = "socket.timeout" -> 2
      [] exc = "ConnectionResetError" -> 3
      [] exc = "ssl.SSLError" -> 4
      [] OTHER -> 5

\* A return statement or an except clause of run_test.
Return(code, why) ==
    /\ pc' = "done"
    /\ status' = code
    /\ cause' = why

\* The finally clause: sock.close() when run_test's local sock is set.
Finally ==
    /\ IF sock = "set"
          THEN transport' = "closed" /\ closes' = closes + 1
          ELSE UNCHANGED <<transport, closes>>
    /\ UNCHANGED sock

\* ------------------------------------------------------------ safe_send
\* safe_send inside the loop: drain the engine's output and write it; an
\* exception of sock.sendall is caught and dropped.
SafeSend(buf) ==
    /\ outbuf' = <<>>
    /\ send_failed' \in (IF buf = <<>> THEN {send_failed} ELSE {send_failed, TRUE})
    /\ UNCHANGED written

\* -------------------------------------------------------- connect_tls_h2
\* The ALPN check after the handshake.
AlpnOk_accept_any(proto) == TRUE

AlpnOk(proto) == proto = "h2"

\* socket.create_connection succeeds within connect_timeout.
TcpConnect ==
    /\ pc = "connect"
    /\ \E d \in 0..cfg.connect_timeout :
          /\ clock + d <= start_t + MaxTime
          /\ clock' = clock + d
    /\ transport' = "open"
    /\ pc' = "tls"
    /\ UNCHANGED <<orchVars, cfg, now, start_t, sessionVars, loop_timeout, batchVars, sock,
                   closes, status, cause, engineVars, connVars, last_rx>>

\* socket.create_connection raises: a timeout after connect_timeout, or an
\* OSError (resolution failure, refusal) at once.  No socket exists.
TcpConnectFail ==
    /\ pc = "connect"
    /\ \E exc \in {"socket.timeout", "OSError"} :
          /\ LET d == IF exc = "socket.timeout" THEN cfg.connect_timeout ELSE 0
             IN  /\ clock + d <= start_t + MaxTime
                 /\ clock' = clock + d
          /\ Return(ExceptStatus(exc), exc)
    /\ Finally
    /\ UNCHANGED <<orchVars, cfg, now, start_t, sessionVars, loop_timeout, batchVars,
                   engineVars, connVars, last_rx>>

\* ctx.wrap_socket completes the handshake; the ALPN result is checked and a
\* RuntimeError raised on a mismatch, before run_test's sock is assigned.
TlsWrap ==
    /\ pc = "tls"
    /\ \E d \in 0..cfg.read_timeout :
          /\ clock + d <= start_t + MaxTime
          /\ clock' = clock + d
    /\ \E proto \in AlpnResults :
          /\ negotiated' = proto
          /\ IF AlpnOk(proto)
                THEN /\ sock' = "set"
                     /\ pc' = "request"
                     /\ UNCHANGED <<status, cause, transport, closes>>
                ELSE /\ Return(ExceptStatus("RuntimeError"), "RuntimeError")
                     /\ Finally
    /\ UNCHANGED <<orchVars, cfg, now, start_t, sessionVars, loop_timeout, batchVars,
                   engineVars, recv_called, loop_start, last_rx>>

\* ctx.wrap_socket raises during the handshake.  The ssl module closes the
\* socket it was wrapping before it re-raises; run_test's sock is still None.
TlsFail ==
    /\ pc = "tls"
    /\ \E exc \in {"ssl.SSLError", "socket.timeout", "ConnectionResetError"} :
          /\ LET d == IF exc = "socket.timeout" THEN cfg.read_timeout ELSE 0
             IN  /\ clock + d <= start_t + MaxTime
                 /\ clock' = clock + d
          /\ Return(ExceptStatus(exc), exc)
    /\ transport' = "closed"
    /\ closes' = closes + 1
    /\ UNCHANGED <<orchVars, cfg, now, start_t, sessionVars, loop_timeout, batchVars, sock,
                   engineVars, connVars, last_rx>>

\* ----------------------------------------------------- run_test: request
\* initiate_connection, safe_send, send_headers, safe_send.
SendRequest ==
    /\ pc = "request"
    /\ outbuf' = <<>>
    /\ written' = written \cup {"preface", "headers"}
    /\ send_failed' \in {send_failed, TRUE}
    /\ loop_start' = clock
    /\ last_rx' = clock
    /\ pc' = "top"
    /\ UNCHANGED <<orchVars, cfg, clock, now, start_t, sessionVars, loop_timeout, batchVars,
                   sock, transport, closes, negotiated, status, cause, recv_called>>

\* -------------------------------------------------- run_test: top of loop
MaxRuntimeReached_no_start(t, start, max_runtime) ==
    max_runtime > 0 /\ t >= max_runtime

MaxRuntimeReached(t, start, max_runtime) ==
    max_runtime > 0 /\ (t - start) >= max_runtime

PingDue(t, last, ping_interval) ==
    ping_interval > 0 /\ (t - last) >= ping_interval

FlushDue_before_expiry(active, t, until) == active

FlushDue(active, t, until) == active /\ t >= until

\* The timeout given to sock.settimeout before each recv.
LoopTimeout_ignores_delay(read_timeout, ping_interval, active, until, t) ==
    IF ping_interval > 0 THEN Min(read_timeout, PingPollCap) ELSE read_timeout

LoopTimeout(read_timeout, ping_interval, active, until, t) ==
    LET t1 == IF ping_interval > 0 THEN Min(read_timeout, PingPollCap)
                                   ELSE read_timeout
        time_left == IF until - t < 0 THEN 0 ELSE until - t
    IN  IF active THEN Min(t1, time_left + DelayMargin) ELSE t1

\* now = time.monotonic(); the max-runtime check.
LoopCheck ==
    /\ pc = "top"
    /\ now' = clock
    /\ IF MaxRuntimeReached(clock, start_t, cfg.max_runtime)
          THEN Return(0, "max_runtime") /\ Finally
          ELSE /\ pc' = "ping"
               /\ UNCHANGED <<status, cause, sock, transport, closes>>
    /\ UNCHANGED <<orchVars, cfg, clock, start_t, sessionVars, loop_timeout, batchVars,
                   engineVars, connVars, last_rx>>

\* The optional keepalive PING.
PingStep ==
    /\ pc = "ping"
    /\ IF PingDue(now, last_ping_sent, cfg.ping_interval)
          THEN /\ SafeSend(Append(outbuf, Intent("ping", 0)))
               /\ last_ping_sent' = now
               /\ n_ping_sent' = n_ping_sent + 1
          ELSE UNCHANGED <<engineVars, last_ping_sent, n_ping_sent>>
    /\ pc' = "flush"
    /\ UNCHANGED <<orchVars, cfg, clock, now, start_t, delay_active, delay_until,
                   total_received, pending_ack_bytes, n_chunks, n_delay_started,
                   n_delay_complete, n_data_log, armed_fcl, flush_acked,
                   loop_timeout, batchVars, sock, transport, closes, status, cause, connVars,
                   last_rx>>

\* The flush of the delayed WINDOW_UPDATE, then the loop timeout.
FlushStep ==
    /\ pc = "flush"
    /\ IF FlushDue(delay_active, now, delay_until)
          THEN /\ IF pending_ack_bytes > 0
                     THEN /\ SafeSend(Append(outbuf, Intent("ack", pending_ack_bytes)))
                          /\ flush_acked' = pending_ack_bytes
                          /\ n_delay_complete' = n_delay_complete + 1
                          /\ pending_ack_bytes' = 0
                     ELSE UNCHANGED <<engineVars, n_delay_complete, pending_ack_bytes,
                                      flush_acked>>
               /\ delay_active' = FALSE
          ELSE UNCHANGED <<engineVars, n_delay_complete, pending_ack_bytes, delay_active,
                           flush_acked>>
    /\ loop_timeout' = LoopTimeout(cfg.read_timeout, cfg.ping_interval,
                                   delay_active', delay_until, now)
    /\ pc' = "recv"
    /\ UNCHANGED <<orchVars, cfg, clock, now, start_t, last_ping_sent, delay_until,
                   total_received, n_chunks, n_delay_started, n_ping_sent,
                   n_data_log, armed_fcl, batchVars, sock, transport, closes, status, cause,
                   connVars, last_rx>>

\* ------------------------------------------------------ run_test: recv
loopFrame == <<orchVars, cfg, now, start_t, loop_timeout, negotiated, loop_start>>

\* sock.recv raises socket.timeout after loop_timeout: continue.
RecvTimeout ==
    /\ pc = "recv"
    /\ clock + loop_timeout <= start_t + MaxTime
    /\ clock' = clock + loop_timeout
    /\ recv_called' = TRUE
    /\ pc' = "top"
    /\ UNCHANGED <<loopFrame, sessionVars, batchVars, sock, transport, closes,
                   status, cause, engineVars, last_rx>>

\* sock.recv returns b'': the peer closed the connection.
RecvEof ==
    /\ pc = "recv"
    /\ \E d \in 0..loop_timeout :
          /\ clock + d <= start_t + MaxTime
          /\ clock' = clock + d
    /\ recv_called' = TRUE
    /\ Return(0, "eof")
    /\ Finally
    /\ UNCHANGED <<loopFrame, sessionVars, batchVars, engineVars, last_rx>>

\* sock.recv or conn.receive_data raises something other than socket.timeout.
\* (An error after a wait is an error at once after reads that waited.)
RecvError ==
    /\ pc = "recv"
    /\ clock' = clock
    /\ recv_called' = TRUE
    /\ \E exc \in {"ConnectionResetError", "ssl.SSLError", "ProtocolError"} :
          Return(ExceptStatus(exc), exc)
    /\ Finally
    /\ UNCHANGED <<loopFrame, sessionVars, batchVars, engineVars, last_rx>>

\* sock.recv returns bytes within loop_timeout; conn.receive_data turns them
\* into a batch of events.
RecvData ==
    /\ pc = "recv"
    /\ \E d \in 0..loop_timeout :
          /\ clock + d <= start_t + MaxTime
          /\ clock' = clock + d
    /\ recv_called' = TRUE
    /\ events_left' \in BatchSizes
    /\ last_rx' = clock'
    /\ pc' = "events"
    /\ UNCHANGED <<loopFrame, sessionVars, sock, transport, closes, status, cause,
                   engineVars>>

\* ------------------------------------------------ run_test: event dispatch
\* The for loop has another event to dispatch; it is consumed.
NextEvent ==
    /\ pc = "events"
    /\ events_left > 0
    /\ events_left' = events_left - 1

eventFrame == <<orchVars, cfg, clock, now, start_t, loop_timeout, negotiated,
                recv_called, loop_start, last_rx>>

\* SettingsAcknowledged, ResponseReceived, PingAckReceived: a log line only.
HandleLogOnly ==
    /\ NextEvent
    /\ UNCHANGED <<eventFrame, pc, sessionVars, sock, transport, closes, status,
                   cause, engineVars>>

\* The condition that starts delay mode.
ShouldArm_any_delay(active, delay_seconds, total, start_after_bytes) ==
    (~active) /\ total >= start_after_bytes

ShouldArm_no_threshold(active, delay_seconds, total, start_after_bytes) ==
    (~active) /\ delay_seconds > 0

ShouldArm(active, delay_seconds, total, start_after_bytes) ==
    (~active) /\ delay_seconds > 0 /\ total >= start_after_bytes

DataReceived(event) ==
    /\ NextEvent
    /\ n_chunks < MaxChunks
    /\ total_received' = total_received + event.len
    /\ pending_ack_bytes' = pending_ack_bytes + event.fcl
    /\ n_chunks' = n_chunks + 1
    /\ IF ShouldArm(delay_active, cfg.delay_seconds, total_received',
                    cfg.start_after_bytes)
          THEN /\ delay_active' = TRUE
               /\ delay_until' = clock + cfg.delay_seconds
               /\ n_delay_started' = n_delay_started + 1
               /\ armed_fcl' = event.fcl
          ELSE /\ UNCHANGED <<delay_active, delay_until, n_delay_started>>
               /\ armed_fcl' = IF delay_active THEN armed_fcl + event.fcl
                                               ELSE armed_fcl
    /\ IF ~delay_active'
          THEN outbuf' = Append(outbuf, Intent("ack", event.fcl))
          ELSE UNCHANGED outbuf
    /\ n_data_log' = n_data_log + 1
    /\ UNCHANGED <<eventFrame, pc, last_ping_sent, n_delay_complete, n_ping_sent,
                   flush_acked, sock, transport, closes, status, cause, written,
                   send_failed>>

HandleDataReceived == \E event \in DataEvents : DataReceived(event)

\* PingReceived: try_ack_ping, then safe_send.
HandlePingReceived ==
    /\ NextEvent
    /\ SafeSend(Append(outbuf, Intent("pingack", 0)))
    /\ UNCHANGED <<eventFrame, pc, sessionVars, sock, transport, closes, status,
                   cause>>

\* The return value of the three terminal events.
EventStatus_reset_is_normal(kind) == 0

EventStatus(kind) == IF kind = "StreamEnded" THEN 0 ELSE 1

\* StreamReset, ConnectionTerminated, StreamEnded: log and return.
Terminal_flushes(kind) ==
    /\ NextEvent
    /\ Return(EventStatus(kind), kind)
    /\ Finally
    /\ IF delay_active /\ pending_ack_bytes > 0
          THEN /\ outbuf' = Append(outbuf, Intent("ack", pending_ack_bytes))
               /\ flush_acked' = pending_ack_bytes
               /\ n_delay_complete' = n_delay_complete + 1
               /\ pending_ack_bytes' = 0
          ELSE UNCHANGED <<outbuf, flush_acked, n_delay_complete, pending_ack_bytes>>
    /\ UNCHANGED <<eventFrame, last_ping_sent, delay_active, delay_until,
                   total_received, n_chunks, n_delay_started, n_ping_sent, n_data_log,
                   armed_fcl, written, send_failed>>

Terminal(kind) ==
    /\ NextEvent
    /\ Return(EventStatus(kind), kind)
    /\ Finally
    /\ UNCHANGED <<eventFrame, sessionVars, engineVars>>

HandleStreamReset == Terminal("StreamReset")
HandleConnectionTerminated == Terminal("ConnectionTerminated")
HandleStreamEnded == Terminal("StreamEnded")

\* After the for loop: safe_send, then the next iteration.
BatchEnd ==
    /\ pc = "events"
    /\ events_left = 0
    /\ SafeSend(outbuf)
    /\ pc' = "top"
    /\ UNCHANGED <<eventFrame, events_left, sessionVars, sock, transport, closes, status,
                   cause>>

Next ==
    \/ TcpConnect
    \/ TcpConnectFail
    \/ TlsWrap
    \/ TlsFail
    \/ SendRequest
    \/ LoopCheck
    \/ PingStep
    \/ FlushStep
    \/ RecvTimeout
    \/ RecvEof
    \/ RecvError
    \/ RecvData
    \/ HandleLogOnly
    \/ HandleDataReceived
    \/ HandlePingReceived
    \/ HandleStreamReset
    \/ HandleConnectionTerminated
    \/ HandleStreamEnded
    \/ BatchEnd

Spec == Init /\ [][Next]_vars

\* ------------------------------------------- backend/app/main.py: the API
\* time.time() advances in ticks of half a second.
WallTicksPerSecond == 2

\* str(int(time.time())): the whole seconds of the wall clock.
RunId(t) == t \div WallTicksPerSecond

\* 'if state.running' at the head of start_run.
AlreadyRunning_never(r) == FALSE

AlreadyRunning(r) == r

\* The except clause of start_run.
StartFailed ==
    /\ running' = FALSE
    /\ response' = "500"

\* POST /api/run. The handler has no await: it runs to its end in one step.
StartRun ==
    /\ IF AlreadyRunning(running)
          THEN /\ response' = "400"
               /\ UNCHANGED <<running, run_id, start_time, h2_proc, tcpdump_proc,
                              alive, n_popen>>
          ELSE /\ n_popen + 2 <= MaxProcs
               /\ run_id' = RunId(wall)
               /\ start_time' = wall
               /\ \/ \* Popen of tcpdump raises
                     /\ StartFailed
                     /\ UNCHANGED <<h2_proc, tcpdump_proc, alive, n_popen>>
                  \/ \* tcpdump is started, Popen of the client raises
                     /\ tcpdump_proc' = n_popen + 1
                     /\ alive' = alive \cup {n_popen + 1}
                     /\ n_popen' = n_popen + 1
                     /\ StartFailed
                     /\ UNCHANGED h2_proc
                  \/ \* both are started
                     /\ tcpdump_proc' = n_popen + 1
                     /\ h2_proc' = n_popen + 2
                     /\ alive' = alive \cup {n_popen + 1, n_popen + 2}
                     /\ n_popen' = n_popen + 2
                     /\ running' = TRUE
                     /\ response' = "started"
    /\ UNCHANGED <<wall, runVars>>

\* POST /api/stop: terminate, wait, kill both children.
StopRun ==
    /\ IF ~running
          THEN /\ response' = "not_running"
               /\ UNCHANGED <<running, alive>>
          ELSE /\ alive' = alive \ {h2_proc, tcpdump_proc}
               /\ running' = FALSE
               /\ response' = "stopped"
    /\ UNCHANGED <<run_id, start_time, h2_proc, tcpdump_proc, n_popen, wall, runVars>>

\* A child process ends by itself.
ProcExit ==
    /\ \E p \in alive : alive' = alive \ {p}
    /\ UNCHANGED <<running, run_id, start_time, h2_proc, tcpdump_proc, n_popen,
                   response, wall, runVars>>

\* The wall clock advances between requests.
WallTick ==
    /\ wall < MaxWall
    /\ wall' = wall + 1
    /\ UNCHANGED <<running, run_id, start_time, h2_proc, tcpdump_proc, n_popen,
                   response, alive, runVars>>

OrchNext ==
    \/ StartRun
    \/ StopRun
    \/ ProcExit
    \/ WallTick

\* The API alone: no session of run_test is followed.
OrchInit ==
    /\ InitOrch
    /\ InitRun
    /\ cfg = MkCfg(0, 0, 0, 1, 2, 0)
    /\ clock = 0

OrchSpec == OrchInit /\ [][OrchNext]_vars

\* ------------------------------------------------------------ the claims
Max(a, b) == IF a >= b THEN a ELSE b
Elapsed == clock - start_t
InLoop == pc \in {"top", "ping", "flush", "recv", "events"}
AckOf(n) == Intent("ack", n)

\* C1: with delay_seconds > 0 the delay is armed ('delay_started' logged) at
\* most once per session; after the flush no later DataReceived arms it again.
C1_ArmedAtMostOnce == n_delay_started <= 1

\* C2: the byte count acknowledged at the flush equals the sum of
\* flow_controlled_length over exactly the chunks received while armed (the
\* arming chunk included), also when chunks were received and acknowledged at
\* once before the threshold was reached.
C2_FlushAcksArmedBytes ==
    (pc = "flush" /\ FlushDue(delay_active, now, delay_until))
        => pending_ack_bytes = armed_fcl

\* C3: if delay_seconds = 0 then delay_active is never set, whatever
\* start_after_bytes is, and the handling of every DataReceived event gives the
\* engine an acknowledge intent for exactly that chunk's flow_controlled_length.
C3_NoDelayAcksEveryChunk ==
    [][cfg.delay_seconds = 0 =>
          /\ ~delay_active'
          /\ n_delay_started' = 0
          /\ (n_chunks' = n_chunks + 1 =>
                outbuf' = Append(outbuf, AckOf(pending_ack_bytes' - pending_ack_bytes)))
      ]_vars

C3_Witness ==
    /\ cfg.delay_seconds = 0
    /\ cfg.start_after_bytes > 0
    /\ total_received >= cfg.start_after_bytes
    /\ n_chunks = 2
    /\ Len(outbuf) = 2

\* C4: with delay_seconds > 0 the first arm transition happens while handling
\* the first DataReceived event at which total_received >= start_after_bytes,
\* never at an earlier chunk, and every chunk before it is acknowledged at once.
C4_FirstArmAtThreshold ==
    [][(cfg.delay_seconds > 0 /\ n_delay_started = 0 /\ n_chunks' = n_chunks + 1) =>
          IF total_received' >= cfg.start_after_bytes
             THEN /\ n_delay_started' = 1
                  /\ delay_active'
                  /\ outbuf' = outbuf
             ELSE /\ n_delay_started' = 0
                  /\ ~delay_active'
                  /\ outbuf' = Append(outbuf,
                                      AckOf(pending_ack_bytes' - pending_ack_bytes))
      ]_vars

C4_Witness ==
    /\ cfg.delay_seconds > 0
    /\ cfg.start_after_bytes > 0
    /\ n_chunks = 2
    /\ n_delay_started = 1
    /\ delay_active
    /\ pending_ack_bytes > armed_fcl

\* C5: run_test returns 0 when the session ends by StreamEnded, a zero-byte
\* read or the max-runtime cap, and 1 when it ends by StreamReset or
\* ConnectionTerminated; the first terminal event of a batch decides, and
\* nothing else yields 0 or 1.
C5_ExitStatusOfCause ==
    /\ (pc = "done" /\ cause \in {"StreamEnded", "eof", "max_runtime"}) => status = 0
    /\ (pc = "done" /\ cause \in {"StreamReset", "ConnectionTerminated"}) => status = 1
    /\ status \in {0, 1} =>
          cause \in {"StreamEnded", "eof", "max_runtime", "StreamReset",
                     "ConnectionTerminated"}
    /\ (pc = "done" /\ cause \notin {"StreamEnded", "eof", "max_runtime",
                                     "StreamReset", "ConnectionTerminated"})
          => status \in 2..5

\* A StreamReset decided the status while events of its batch were still to come.
C5_Witness ==
    /\ pc = "done"
    /\ cause = "StreamReset"
    /\ status = 1
    /\ events_left > 0
    /\ n_chunks > 0

\* C6: a read of the streaming loop that leaves the peer silent for longer than
\* read_timeout, with no terminal event and the max-runtime cap not reached,
\* ends the session with exit status 2.
C6_IdleTimeoutExits ==
    [][(/\ pc = "recv"
        /\ pc' # "events"
        /\ cause' \in {"running", "socket.timeout"}
        /\ clock' - last_rx' > cfg.read_timeout
        /\ ~MaxRuntimeReached(clock', start_t, cfg.max_runtime))
          => (pc' = "done" /\ status' = 2)
      ]_vars

\* C7: when TLS completes with a negotiated protocol other than 'h2' (none
\* selected included), the run ends with exit status 4.
C7_AlpnMismatchStatus4 ==
    (pc = "done" /\ negotiated \notin {"unset", "h2"}) => status = 4

\* C8: when the negotiated protocol is not 'h2' the connection is not used
\* further: no preface or request headers are written, no read of the streaming
\* loop is performed and no DATA line is logged.
C8_AlpnMismatchUnused ==
    negotiated \notin {"unset", "h2"} =>
        /\ pc = "done"
        /\ written = {}
        /\ ~recv_called
        /\ n_data_log = 0
        /\ outbuf = <<>>

C8_Witness ==
    /\ negotiated = "http/1.1"
    /\ pc = "done"
    /\ transport # "none"

\* C9: on every exit path of a run whose TCP connection was established, the
\* transport socket has been closed exactly once when run_test returns.
C9_ClosedExactlyOnce ==
    (pc = "done" /\ transport # "none") => (transport = "closed" /\ closes = 1)

C11_ScenarioA ==
    (/\ pc = "done" /\ cause = "StreamEnded"
     /\ cfg.delay_seconds > 0
     /\ n_chunks = 1
     /\ total_received > 0
     /\ total_received >= cfg.start_after_bytes)
        => /\ status = 0
           /\ n_delay_started = 1
           /\ n_delay_complete = 1
           /\ flush_acked = armed_fcl

\* C11 (amended), for N > 0: the delay_complete and its acknowledgment happen exactly when
\* the read that delivered the end of the stream began at or after the expiry of
\* the delay; a stream end handled earlier leaves the chunk unacknowledged.
C11_ScenarioAByArrival ==
    (/\ pc = "done" /\ cause = "StreamEnded"
     /\ cfg.delay_seconds > 0
     /\ n_chunks = 1
     /\ total_received > 0
     /\ total_received >= cfg.start_after_bytes)
        => /\ status = 0
           /\ n_delay_started = 1
           /\ IF now >= delay_until
                 THEN /\ n_delay_complete = 1
                      /\ flush_acked = armed_fcl
                      /\ pending_ack_bytes = 0
                      /\ ~delay_active
                 ELSE /\ n_delay_complete = 0
                      /\ flush_acked = 0
                      /\ pending_ack_bytes = armed_fcl
                      /\ delay_active

C11_Witness ==
    /\ pc = "done" /\ cause = "StreamEnded"
    /\ cfg.delay_seconds > 0
    /\ cfg.start_after_bytes > 0
    /\ n_chunks = 1
    /\ total_received >= cfg.start_after_bytes
    /\ now >= delay_until
    /\ n_delay_complete = 1
    /\ flush_acked = 2

\* C12: Scenario B: with ping_interval = P > 0, when the peer stays silent for
\* more than 2P from the start of the streaming loop and then resets the stream,
\* at least two ping_sent were logged before the StreamReset is processed, and
\* the run exits with status 1.
C12_TwoPingsBeforeReset ==
    (/\ pc = "done" /\ cause = "StreamReset"
     /\ cfg.ping_interval > 0
     /\ now = loop_start
     /\ clock - loop_start > 2 * cfg.ping_interval)
        => /\ n_ping_sent >= 2
           /\ status = 1

\* C13: a transport write failure before the final teardown is never silently
\* ignored: it ends the session with a non-zero exit status.
C13_WriteFailureEndsSession ==
    send_failed => (pc = "done" /\ status # 0)

\* C14: in every state of the streaming loop, pending_ack_bytes > 0 implies
\* delay_active.
C14_PendingOnlyWhileArmed ==
    InLoop => (pending_ack_bytes > 0 => delay_active)

\* C15: with ping enabled, the timeout passed to each socket read is at most the
\* time remaining until the next keepalive ping is due.
C15_ReadTimeoutWithinPingDeadline ==
    (pc = "recv" /\ cfg.ping_interval > 0)
        => loop_timeout <= last_ping_sent + cfg.ping_interval - now

\* C16: the timeout passed to each socket read is at most read_timeout and, when
\* the delay is armed, at most the time remaining to its expiry (floored at 0)
\* plus the margin; no read is started with an expired delay still armed or with
\* a ping still due, so both are handled in the iteration where they fall due.
C16_ReadTimeoutBounds ==
    pc = "recv" =>
        /\ loop_timeout <= cfg.read_timeout
        /\ delay_active => loop_timeout <= Max(delay_until - now, 0) + DelayMargin
        /\ ~FlushDue(delay_active, now, delay_until)
        /\ ~PingDue(now, last_ping_sent, cfg.ping_interval)

C16_Witness ==
    /\ pc = "recv"
    /\ delay_active
    /\ loop_timeout = delay_until - now + DelayMargin
    /\ loop_timeout < cfg.read_timeout

\* C17: every intent given to the engine is drained and written before the
\* session terminates, also the immediate acknowledgments of a batch that holds
\* a terminal event.
C17_IntentsWrittenBeforeExit ==
    pc = "done" => outbuf = <<>>

\* C18: a StreamEnded or StreamReset processed while the delay is armed ends the
\* session with no acknowledge intent for the pending bytes and no
\* delay_complete; nothing runs after the return but the close of the socket.
C18_TerminalWhileArmedNeverFlushes ==
    [][(pc = "events" /\ pc' = "done" /\ delay_active) =>
          /\ cause' \in TerminalKinds
          /\ delay_active'
          /\ pending_ack_bytes' = pending_ack_bytes
          /\ n_delay_complete' = n_delay_complete
          /\ flush_acked' = flush_acked
          /\ outbuf' = outbuf
      ]_vars

C18_Witness ==
    /\ pc = "done"
    /\ cause = "StreamReset"
    /\ delay_active
    /\ n_delay_started = 1
    /\ n_delay_complete = 0
    /\ pending_ack_bytes > 0
    /\ outbuf = <<>>

\* C19: the orchestrator runs at most one experiment at a time: a start_run
\* arriving while state.running is True is rejected with HTTP 400, launches no
\* subprocess and leaves run_id, start_time, h2_proc and tcpdump_proc unchanged,
\* whatever start_run and stop_run requests came before.
C19_StartWhileRunningRejected ==
    [][(running /\ StartRun) =>
          /\ response' = "400"
          /\ running'
          /\ n_popen' = n_popen
          /\ alive' = alive
          /\ run_id' = run_id
          /\ start_time' = start_time
          /\ h2_proc' = h2_proc
          /\ tcpdump_proc' = tcpdump_proc
      ]_vars

C19_Witness ==
    /\ running
    /\ response = "400"
    /\ n_popen = MaxProcs
    /\ run_id # RunId(wall)

\* C20: whenever state.running is False no child process launched by start_run
\* is still alive.
C20_NoChildWhenNotRunning ==
    ~running => alive = {}

====
